---- MODULE Spec2Model ----
(***************************************************************************)
(* A model of bevy_talks' Conversation (src/src/conversation.rs): the      *)
(* construction of the dialogue graph from a raw script and the cursor     *)
(* traversal over it.                                                      *)
(*                                                                         *)
(* Conventions.  An Option<T> is a sequence: <<>> is None, <<v>> is        *)
(* Some(v).  A HashMap is a function whose DOMAIN is its key set; its      *)
(* iteration order is not fixed by the program, so every loop over a map   *)
(* takes the order as a parameter and Conversation::new is checked for     *)
(* every order.  A NodeIndex is the 0-based position of the node in the    *)
(* graph's node list; edges are kept in the order they were added.         *)
(*                                                                         *)
(* Three specifications: Spec (one raw script, one instance and its        *)
(* traversal), LoaderSpec (TalksLoader::load of                            *)
(* src/src/ron_loader/loader.rs on a parsed file) and PairSpec (two        *)
(* instances driven by interleaved calls).                                 *)
(***************************************************************************)
EXTENDS Integers, Sequences, FiniteSets, TLC

VARIABLES raw_script, pc, new_result, convo, graph_local, last_call,
          ron_talk, load_result, instances, alone

(* The parsed file handed to TalksLoader::load and what load returned *)
loader_vars == <<ron_talk, load_result>>

(* Two Conversation instances driven side by side, and the same two
   instances each receiving its own calls only *)
pair_vars == <<instances, alone>>

vars == <<raw_script, pc, new_result, convo, graph_local, last_call,
          ron_talk, load_result, instances, alone>>

----------------------------------------------------------------------------
(* Bounds of the input space *)

MaxLen == 3

MaxWeight == 3

None == <<>>

Some(v) == <<v>>

IsSome(o) == Len(o) = 1

Unwrap(o) == o[1]

----------------------------------------------------------------------------
(* Script entries: ActorOrPlayerActionJSON and its accessors *)

ActorAction(id, text, actors, next, start) ==
    [kind |-> "Actor", id |-> id, text |-> text, actors |-> actors,
     next |-> next, start |-> start, choices |-> <<>>]

PlayerAction(id, choices, start) ==
    [kind |-> "Player", id |-> id, text |-> None, actors |-> None,
     next |-> None, start |-> start, choices |-> choices]

Choice(text, next) == [text |-> text, next |-> next]

ActionIdOf(a) == a.id

ActionNext(a) == IF a.kind = "Actor" THEN a.next ELSE None

ActionStart(a) == a.start

ActionChoices(a) == IF a.kind = "Player" THEN Some(a.choices) ELSE None

----------------------------------------------------------------------------
(* HashMap *)

EmptyMap == [k \in {} |-> 0]

ContainsKey(m, k) == k \in DOMAIN m

MapGet(m, k) == IF k \in DOMAIN m THEN Some(m[k]) ELSE None

MapInsert(m, k, v) == [x \in (DOMAIN m) \cup {k} |-> IF x = k THEN v ELSE m[x]]

Range(s) == {s[i] : i \in DOMAIN s}

IterOrders(m) ==
    {o \in [1..Cardinality(DOMAIN m) -> DOMAIN m] : Range(o) = DOMAIN m}

----------------------------------------------------------------------------
(* Errors *)

NoErr == [tag |-> "None", args |-> <<>>]

EmptyScript == [tag |-> "EmptyScript", args |-> <<>>]

RepeatedId(id) == [tag |-> "RepeatedId", args |-> <<id>>]

ActorNotFound(id, actor) == [tag |-> "ActorNotFound", args |-> <<id, actor>>]

MultipleStartingAction == [tag |-> "MultipleStartingAction", args |-> <<>>]

NextActionNotFound(id, next) == [tag |-> "NextActionNotFound", args |-> <<id, next>>]

NoStartingAction == [tag |-> "NoStartingAction", args |-> <<>>]

----------------------------------------------------------------------------
(* Results of the fallible helpers: ok = TRUE carries the values, ok = FALSE
   carries the error returned by `?` or `return Err(..)`. *)

Graph(nodes, edges) == [nodes |-> nodes, edges |-> edges]

EmptyGraph == Graph(<<>>, <<>>)

ConvoNode(text, actors, choices) == [text |-> text, actors |-> actors, choices |-> choices]

StrippedNodeAction(node_idx, next_action_id, choices) ==
    [node_idx |-> node_idx, next_action_id |-> next_action_id, choices |-> choices]

AddNode(g, node) == Graph(Append(g.nodes, node), g.edges)

AddEdge(g, a, b) == Graph(g.nodes, Append(g.edges, <<a, b>>))

NodeCount(g) == Len(g.nodes)

EdgeCount(g) == Len(g.edges)

NodeWeight(g, idx) == IF idx + 1 \in DOMAIN g.nodes THEN Some(g.nodes[idx + 1]) ELSE None

(* Outgoing edges of a node, as positions in the edge list; petgraph's
   edges(a) walks them from the most recently added one. *)
OutEdges(g, a) == {k \in DOMAIN g.edges : g.edges[k][1] = a}

OutDegree(g, a) == Cardinality(OutEdges(g, a))

FirstOutEdge(g, a) ==
    IF OutEdges(g, a) = {} THEN None
    ELSE Some(g.edges[CHOOSE k \in OutEdges(g, a) : \A j \in OutEdges(g, a) : j <= k])

----------------------------------------------------------------------------
(* build_id_to_next_map *)

(* IdToNextEntry taking for repeated an explicit next that is already the
   next of an earlier entry *)
IdToNextEntryTargetTaken(script, i, m) ==
    LET a == script[i]
        n == ActionNext(a)
    IN  IF IsSome(n)
        THEN IF ContainsKey(m, ActionIdOf(a)) \/ \E k \in DOMAIN m : m[k] = Unwrap(n)
             THEN [ok |-> FALSE, err |-> RepeatedId(ActionIdOf(a)), map |-> m]
             ELSE [ok |-> TRUE, err |-> NoErr, map |-> MapInsert(m, ActionIdOf(a), Unwrap(n))]
        ELSE IF i < Len(script)
             THEN [ok |-> TRUE, err |-> NoErr,
                   map |-> MapInsert(m, ActionIdOf(a), ActionIdOf(script[i + 1]))]
             ELSE [ok |-> TRUE, err |-> NoErr, map |-> m]

(* IdToNextEntry giving an implicit next to actor entries only *)
IdToNextEntryActorOnly(script, i, m) ==
    LET a == script[i]
        n == ActionNext(a)
    IN  IF IsSome(n)
        THEN IF ContainsKey(m, ActionIdOf(a))
             THEN [ok |-> FALSE, err |-> RepeatedId(ActionIdOf(a)), map |-> m]
             ELSE [ok |-> TRUE, err |-> NoErr, map |-> MapInsert(m, ActionIdOf(a), Unwrap(n))]
        ELSE IF i < Len(script) /\ a.kind = "Actor"
             THEN [ok |-> TRUE, err |-> NoErr,
                   map |-> MapInsert(m, ActionIdOf(a), ActionIdOf(script[i + 1]))]
             ELSE [ok |-> TRUE, err |-> NoErr, map |-> m]

(* IdToNextEntry recording explicit nexts only *)
IdToNextEntryExplicitOnly(script, i, m) ==
    LET a == script[i]
        n == ActionNext(a)
    IN  IF IsSome(n)
        THEN IF ContainsKey(m, ActionIdOf(a))
             THEN [ok |-> FALSE, err |-> RepeatedId(ActionIdOf(a)), map |-> m]
             ELSE [ok |-> TRUE, err |-> NoErr, map |-> MapInsert(m, ActionIdOf(a), Unwrap(n))]
        ELSE [ok |-> TRUE, err |-> NoErr, map |-> m]

(* One iteration of the loop, on entry i with the map m built so far *)
IdToNextEntry(script, i, m) ==
    LET a == script[i]
        n == ActionNext(a)
    IN  IF IsSome(n)
        THEN IF ContainsKey(m, ActionIdOf(a))
             THEN [ok |-> FALSE, err |-> RepeatedId(ActionIdOf(a)), map |-> m]
             ELSE [ok |-> TRUE, err |-> NoErr, map |-> MapInsert(m, ActionIdOf(a), Unwrap(n))]
        ELSE IF i < Len(script)
             THEN [ok |-> TRUE, err |-> NoErr,
                   map |-> MapInsert(m, ActionIdOf(a), ActionIdOf(script[i + 1]))]
             ELSE [ok |-> TRUE, err |-> NoErr, map |-> m]

RECURSIVE BuildIdToNextFrom(_, _, _)
BuildIdToNextFrom(script, i, m) ==
    IF i > Len(script) THEN [ok |-> TRUE, err |-> NoErr, map |-> m]
    ELSE LET step == IdToNextEntry(script, i, m)
         IN  IF step.ok THEN BuildIdToNextFrom(script, i + 1, step.map) ELSE step

build_id_to_next_map(script) == BuildIdToNextFrom(script, 1, EmptyMap)

----------------------------------------------------------------------------
(* extract_actors *)

RECURSIVE ExtractActorsFrom(_, _, _, _, _)
ExtractActorsFrom(id, actors_vec, actors_map, k, acc) ==
    IF k > Len(actors_vec) THEN [ok |-> TRUE, err |-> NoErr, val |-> Some(acc)]
    ELSE IF ContainsKey(actors_map, actors_vec[k])
         THEN ExtractActorsFrom(id, actors_vec, actors_map, k + 1,
                                Append(acc, actors_map[actors_vec[k]]))
         ELSE [ok |-> FALSE, err |-> ActorNotFound(id, actors_vec[k]), val |-> None]

(* extract_actors skipping the first reference of the list *)
extract_actors_skip_first(aaction, actors_map) ==
    IF IsSome(aaction.actors)
    THEN ExtractActorsFrom(aaction.id, Unwrap(aaction.actors), actors_map, 2, <<>>)
    ELSE [ok |-> TRUE, err |-> NoErr, val |-> None]

extract_actors(aaction, actors_map) ==
    IF IsSome(aaction.actors)
    THEN ExtractActorsFrom(aaction.id, Unwrap(aaction.actors), actors_map, 1, <<>>)
    ELSE [ok |-> TRUE, err |-> NoErr, val |-> None]

----------------------------------------------------------------------------
(* check_start_flag *)

(* check_start_flag taking any present flag, true or false, as a start *)
check_start_flag_is_some(start_flag, already_have_start) ==
    IF IsSome(start_flag)
    THEN IF already_have_start
         THEN [ok |-> FALSE, err |-> MultipleStartingAction, val |-> FALSE]
         ELSE [ok |-> TRUE, err |-> NoErr, val |-> TRUE]
    ELSE [ok |-> TRUE, err |-> NoErr, val |-> FALSE]

(* check_start_flag keeping the first start and ignoring the later ones *)
check_start_flag_keep_first(start_flag, already_have_start) ==
    IF start_flag = Some(TRUE) /\ ~already_have_start
    THEN [ok |-> TRUE, err |-> NoErr, val |-> TRUE]
    ELSE [ok |-> TRUE, err |-> NoErr, val |-> FALSE]

check_start_flag(start_flag, already_have_start) ==
    IF start_flag = Some(TRUE)
    THEN IF already_have_start
         THEN [ok |-> FALSE, err |-> MultipleStartingAction, val |-> FALSE]
         ELSE [ok |-> TRUE, err |-> NoErr, val |-> TRUE]
    ELSE [ok |-> TRUE, err |-> NoErr, val |-> FALSE]

----------------------------------------------------------------------------
(* add_action_node *)

add_action_node(graph, action, actors_map) ==
    IF action.kind = "Actor"
    THEN LET ex == extract_actors(action, actors_map)
         IN  IF ex.ok
             THEN [ok |-> TRUE, err |-> NoErr,
                   graph |-> AddNode(graph, ConvoNode(action.text, ex.val, None)),
                   node_idx |-> NodeCount(graph)]
             ELSE [ok |-> FALSE, err |-> ex.err, graph |-> graph, node_idx |-> 0]
    ELSE [ok |-> TRUE, err |-> NoErr,
          graph |-> AddNode(graph, ConvoNode(None, None, Some(action.choices))),
          node_idx |-> NodeCount(graph)]

----------------------------------------------------------------------------
(* Conversation::new, step 2: add all actions as nodes, in script order.
   st = the locals graph, start_action and id_to_nodeids_map. *)

ChoicesNexts(action) ==
    IF IsSome(ActionChoices(action))
    THEN Some([k \in DOMAIN Unwrap(ActionChoices(action)) |-> Unwrap(ActionChoices(action))[k].next])
    ELSE None

(* AddAction ignoring what insert returns: a repeated id overwrites *)
AddActionOverwrite(action, actors, id_to_next_map, st) ==
    LET this_action_id == ActionIdOf(action)
        added == add_action_node(st.graph, action, actors)
        flag == check_start_flag(ActionStart(action), IsSome(st.start_action))
        start_action == IF flag.val THEN Some(added.node_idx) ELSE st.start_action
        stripped == StrippedNodeAction(added.node_idx,
                                       MapGet(id_to_next_map, this_action_id),
                                       ChoicesNexts(action))
    IN  IF ~added.ok
        THEN [ok |-> FALSE, err |-> added.err, graph |-> st.graph,
              start_action |-> st.start_action, map |-> st.map]
        ELSE IF ~flag.ok
        THEN [ok |-> FALSE, err |-> flag.err, graph |-> added.graph,
              start_action |-> st.start_action, map |-> st.map]
        ELSE [ok |-> TRUE, err |-> NoErr, graph |-> added.graph,
              start_action |-> start_action,
              map |-> MapInsert(st.map, this_action_id, stripped)]

(* One iteration of the loop, on action with the locals st *)
AddAction(action, actors, id_to_next_map, st) ==
    LET this_action_id == ActionIdOf(action)
        added == add_action_node(st.graph, action, actors)
        flag == check_start_flag(ActionStart(action), IsSome(st.start_action))
        start_action == IF flag.val THEN Some(added.node_idx) ELSE st.start_action
        stripped == StrippedNodeAction(added.node_idx,
                                       MapGet(id_to_next_map, this_action_id),
                                       ChoicesNexts(action))
    IN  IF ~added.ok
        THEN [ok |-> FALSE, err |-> added.err, graph |-> st.graph,
              start_action |-> st.start_action, map |-> st.map]
        ELSE IF ~flag.ok
        THEN [ok |-> FALSE, err |-> flag.err, graph |-> added.graph,
              start_action |-> st.start_action, map |-> st.map]
        ELSE IF ContainsKey(st.map, this_action_id)
        THEN [ok |-> FALSE, err |-> RepeatedId(this_action_id), graph |-> added.graph,
              start_action |-> start_action, map |-> st.map]
        ELSE [ok |-> TRUE, err |-> NoErr, graph |-> added.graph,
              start_action |-> start_action,
              map |-> MapInsert(st.map, this_action_id, stripped)]

RECURSIVE AddNodesFrom(_, _, _, _, _)
AddNodesFrom(script, actors, id_to_next_map, i, st) ==
    IF i > Len(script)
    THEN [ok |-> TRUE, err |-> NoErr, graph |-> st.graph,
          start_action |-> st.start_action, map |-> st.map]
    ELSE LET step == AddAction(script[i], actors, id_to_next_map, st)
         IN  IF step.ok
             THEN AddNodesFrom(script, actors, id_to_next_map, i + 1,
                               [graph |-> step.graph, start_action |-> step.start_action,
                                map |-> step.map])
             ELSE step

----------------
(* validate_nexts: the map is walked in the iteration order ord *)

FirstMissing(m, vc) ==
    IF \E k \in DOMAIN vc : ~ContainsKey(m, vc[k])
    THEN Some(vc[CHOOSE k \in DOMAIN vc :
                     /\ ~ContainsKey(m, vc[k])
                     /\ \A j \in 1..(k - 1) : ContainsKey(m, vc[j])])
    ELSE None

(* One iteration of the loop, on the entry of key id *)
ValidateNode(m, id) ==
    LET stripped_node == m[id]
    IN  IF IsSome(stripped_node.next_action_id)
        THEN IF ~ContainsKey(m, Unwrap(stripped_node.next_action_id))
             THEN [ok |-> FALSE,
                   err |-> NextActionNotFound(id, Unwrap(stripped_node.next_action_id))]
             ELSE [ok |-> TRUE, err |-> NoErr]
        ELSE IF IsSome(stripped_node.choices)
                /\ IsSome(FirstMissing(m, Unwrap(stripped_node.choices)))
             THEN [ok |-> FALSE,
                   err |-> NextActionNotFound(id,
                               Unwrap(FirstMissing(m, Unwrap(stripped_node.choices))))]
             ELSE [ok |-> TRUE, err |-> NoErr]

RECURSIVE ValidateNextsFrom(_, _, _)
ValidateNextsFrom(m, ord, p) ==
    IF p > Len(ord) THEN [ok |-> TRUE, err |-> NoErr]
    ELSE LET step == ValidateNode(m, ord[p])
         IN  IF step.ok THEN ValidateNextsFrom(m, ord, p + 1) ELSE step

validate_nexts(m, ord) == ValidateNextsFrom(m, ord, 1)

----------------------------------------------------------------------------
(* Conversation::new, step 4: add edges, walking the map in the order ord *)

(* 5.b: one edge per choice, stopping at the first choice naming no entry *)
RECURSIVE AddChoiceEdges(_, _, _, _, _)
AddChoiceEdges(m, graph, action_id, chs, k) ==
    IF k > Len(chs) THEN [ok |-> TRUE, err |-> NoErr, graph |-> graph]
    ELSE IF ~ContainsKey(m, chs[k])
         THEN [ok |-> FALSE, err |-> NextActionNotFound(action_id, chs[k]), graph |-> graph]
         ELSE AddChoiceEdges(m, AddEdge(graph, m[action_id].node_idx, m[chs[k]].node_idx),
                             action_id, chs, k + 1)

(* AddNextEdge adding, besides the edge of an explicit next, the edge to the
   node added after this one *)
AddNextEdgeAndFollowing(m, graph, action_id) ==
    LET node_action == m[action_id]
        next_id == Unwrap(node_action.next_action_id)
        with_next == AddEdge(graph, node_action.node_idx, m[next_id].node_idx)
    IN  IF IsSome(node_action.next_action_id)
        THEN IF ~ContainsKey(m, next_id)
             THEN [ok |-> FALSE, err |-> NextActionNotFound(action_id, next_id),
                   graph |-> graph]
             ELSE IF /\ m[next_id].node_idx # node_action.node_idx + 1
                     /\ node_action.node_idx + 1 < NodeCount(graph)
             THEN [ok |-> TRUE, err |-> NoErr,
                   graph |-> AddEdge(with_next, node_action.node_idx,
                                     node_action.node_idx + 1)]
             ELSE [ok |-> TRUE, err |-> NoErr, graph |-> with_next]
        ELSE [ok |-> TRUE, err |-> NoErr, graph |-> graph]

(* AddNextEdge adding no edge from a node to itself *)
AddNextEdgeNoSelfLoop(m, graph, action_id) ==
    LET node_action == m[action_id]
    IN  IF IsSome(node_action.next_action_id)
        THEN IF ~ContainsKey(m, Unwrap(node_action.next_action_id))
             THEN [ok |-> FALSE,
                   err |-> NextActionNotFound(action_id, Unwrap(node_action.next_action_id)),
                   graph |-> graph]
             ELSE IF Unwrap(node_action.next_action_id) = action_id
             THEN [ok |-> TRUE, err |-> NoErr, graph |-> graph]
             ELSE [ok |-> TRUE, err |-> NoErr,
                   graph |-> AddEdge(graph, node_action.node_idx,
                                     m[Unwrap(node_action.next_action_id)].node_idx)]
        ELSE [ok |-> TRUE, err |-> NoErr, graph |-> graph]

(* 5.a: with the next field, a single edge *)
AddNextEdge(m, graph, action_id) ==
    LET node_action == m[action_id]
    IN  IF IsSome(node_action.next_action_id)
        THEN IF ~ContainsKey(m, Unwrap(node_action.next_action_id))
             THEN [ok |-> FALSE,
                   err |-> NextActionNotFound(action_id, Unwrap(node_action.next_action_id)),
                   graph |-> graph]
             ELSE [ok |-> TRUE, err |-> NoErr,
                   graph |-> AddEdge(graph, node_action.node_idx,
                                     m[Unwrap(node_action.next_action_id)].node_idx)]
        ELSE [ok |-> TRUE, err |-> NoErr, graph |-> graph]

(* AddEdgesOf adding the edge of the next field only *)
AddEdgesOfNextOnly(m, graph, action_id) == AddNextEdge(m, graph, action_id)

(* One iteration of the loop, on the entry of key action_id *)
AddEdgesOf(m, graph, action_id) ==
    LET single == AddNextEdge(m, graph, action_id)
    IN  IF ~single.ok THEN single
        ELSE IF IsSome(m[action_id].choices)
        THEN AddChoiceEdges(m, single.graph, action_id, Unwrap(m[action_id].choices), 1)
        ELSE single

RECURSIVE AddEdgesFrom(_, _, _, _)
AddEdgesFrom(m, ord, p, graph) ==
    IF p > Len(ord) THEN [ok |-> TRUE, err |-> NoErr, graph |-> graph]
    ELSE LET step == AddEdgesOf(m, graph, ord[p])
         IN  IF step.ok THEN AddEdgesFrom(m, ord, p + 1, step.graph) ELSE step

----------------
(* Conversation::new.  The result records the error or the instance, and
   the local graph as it was when the function returned. *)

Failed(err, graph) ==
    [ok |-> FALSE, err |-> err, graph |-> graph, current |-> 0, id_to_nodeidx |-> EmptyMap]

NewWithOrder(built, ord) ==
    LET validated == validate_nexts(built.map, ord)
        edged == AddEdgesFrom(built.map, ord, 1, built.graph)
    IN  IF ~validated.ok THEN Failed(validated.err, built.graph)
        ELSE IF ~edged.ok THEN Failed(edged.err, edged.graph)
        ELSE IF ~IsSome(built.start_action) THEN Failed(NoStartingAction, edged.graph)
        ELSE [ok |-> TRUE, err |-> NoErr, graph |-> edged.graph,
              current |-> Unwrap(built.start_action),
              id_to_nodeidx |-> [id \in DOMAIN built.map |-> built.map[id].node_idx]]

(* Conversation::new past the is_empty check *)
NewNonEmpty(raw) ==
    LET id_to_next_map == build_id_to_next_map(raw.script)
        built == AddNodesFrom(raw.script, raw.actors, id_to_next_map.map, 1,
                              [graph |-> EmptyGraph, start_action |-> None, map |-> EmptyMap])
    IN  IF ~id_to_next_map.ok THEN {Failed(id_to_next_map.err, EmptyGraph)}
        ELSE IF ~built.ok THEN {Failed(built.err, built.graph)}
        ELSE {NewWithOrder(built, ord) : ord \in IterOrders(built.map)}

(* Conversation::new without the is_empty check *)
ConversationNewUnchecked(raw) == NewNonEmpty(raw)

(* The set of results Conversation::new can return for raw, one per
   iteration order of id_to_nodeids_map. *)
ConversationNew(raw) ==
    IF Len(raw.script) = 0 THEN {Failed(EmptyScript, EmptyGraph)} ELSE NewNonEmpty(raw)

----------------------------------------------------------------------------
(* Conversation::next_line, jump_to and choices, on an instance c *)

InvalidDialogue == [tag |-> "InvalidDialogue", args |-> <<>>]

ChoicesNotHandled == [tag |-> "ChoicesNotHandled", args |-> <<>>]

NoNextDialogue == [tag |-> "NoNextDialogue", args |-> <<>>]

NoChoices == [tag |-> "NoChoices", args |-> <<>>]

WrongJump(id) == [tag |-> "WrongJump", args |-> <<id>>]

Instance(r) == [graph |-> r.graph, current |-> r.current, id_to_nodeidx |-> r.id_to_nodeidx]

(* next_line removing from the graph the edge it follows *)
next_line_consuming(c) ==
    LET dnode == NodeWeight(c.graph, c.current)
        edge_ref == FirstOutEdge(c.graph, c.current)
        rest == SelectSeq(c.graph.edges, LAMBDA e : e # Unwrap(edge_ref))
    IN  IF ~IsSome(dnode) THEN [ok |-> FALSE, err |-> InvalidDialogue, self |-> c]
        ELSE IF IsSome(Unwrap(dnode).choices)
        THEN [ok |-> FALSE, err |-> ChoicesNotHandled, self |-> c]
        ELSE IF ~IsSome(edge_ref) THEN [ok |-> FALSE, err |-> NoNextDialogue, self |-> c]
        ELSE [ok |-> TRUE, err |-> NoErr,
              self |-> [c EXCEPT !.current = Unwrap(edge_ref)[2],
                                 !.graph = Graph(c.graph.nodes, rest)]]

(* next_line returning Ok without moving when there is no outgoing edge *)
next_line_noop_at_end(c) ==
    LET dnode == NodeWeight(c.graph, c.current)
        edge_ref == FirstOutEdge(c.graph, c.current)
    IN  IF ~IsSome(dnode) THEN [ok |-> FALSE, err |-> InvalidDialogue, self |-> c]
        ELSE IF IsSome(Unwrap(dnode).choices)
        THEN [ok |-> FALSE, err |-> ChoicesNotHandled, self |-> c]
        ELSE IF ~IsSome(edge_ref) THEN [ok |-> TRUE, err |-> NoErr, self |-> c]
        ELSE [ok |-> TRUE, err |-> NoErr, self |-> [c EXCEPT !.current = Unwrap(edge_ref)[2]]]

(* next_line moving to the node added after the current one *)
next_line_to_following(c) ==
    LET dnode == NodeWeight(c.graph, c.current)
        edge_ref == FirstOutEdge(c.graph, c.current)
    IN  IF ~IsSome(dnode) THEN [ok |-> FALSE, err |-> InvalidDialogue, self |-> c]
        ELSE IF IsSome(Unwrap(dnode).choices)
        THEN [ok |-> FALSE, err |-> ChoicesNotHandled, self |-> c]
        ELSE IF ~IsSome(edge_ref) THEN [ok |-> FALSE, err |-> NoNextDialogue, self |-> c]
        ELSE [ok |-> TRUE, err |-> NoErr,
              self |-> [c EXCEPT !.current = (c.current + 1) % NodeCount(c.graph)]]

(* next_line looking for an outgoing edge before looking at the choices *)
next_line_edge_first(c) ==
    LET dnode == NodeWeight(c.graph, c.current)
        edge_ref == FirstOutEdge(c.graph, c.current)
    IN  IF ~IsSome(dnode) THEN [ok |-> FALSE, err |-> InvalidDialogue, self |-> c]
        ELSE IF IsSome(edge_ref)
        THEN [ok |-> TRUE, err |-> NoErr, self |-> [c EXCEPT !.current = Unwrap(edge_ref)[2]]]
        ELSE IF IsSome(Unwrap(dnode).choices)
        THEN [ok |-> FALSE, err |-> ChoicesNotHandled, self |-> c]
        ELSE [ok |-> FALSE, err |-> NoNextDialogue, self |-> c]

next_line(c) ==
    LET dnode == NodeWeight(c.graph, c.current)
        edge_ref == FirstOutEdge(c.graph, c.current)
    IN  IF ~IsSome(dnode) THEN [ok |-> FALSE, err |-> InvalidDialogue, self |-> c]
        ELSE IF IsSome(Unwrap(dnode).choices)
        THEN [ok |-> FALSE, err |-> ChoicesNotHandled, self |-> c]
        ELSE IF ~IsSome(edge_ref) THEN [ok |-> FALSE, err |-> NoNextDialogue, self |-> c]
        ELSE [ok |-> TRUE, err |-> NoErr, self |-> [c EXCEPT !.current = Unwrap(edge_ref)[2]]]

(* jump_to taking the id of a known entry for the index of its node *)
jump_to_id_as_index(c, id) ==
    LET idx == MapGet(c.id_to_nodeidx, id)
    IN  IF ~IsSome(idx) THEN [ok |-> FALSE, err |-> WrongJump(id), self |-> c]
        ELSE [ok |-> TRUE, err |-> NoErr, self |-> [c EXCEPT !.current = id]]

(* jump_to going back to the first node on an id it does not know *)
jump_to_reset_on_unknown(c, id) ==
    LET idx == MapGet(c.id_to_nodeidx, id)
    IN  IF ~IsSome(idx)
        THEN [ok |-> FALSE, err |-> WrongJump(id), self |-> [c EXCEPT !.current = 0]]
        ELSE [ok |-> TRUE, err |-> NoErr, self |-> [c EXCEPT !.current = Unwrap(idx)]]

(* jump_to staying where it is, with Ok, on an id it does not know *)
jump_to_unknown_noop(c, id) ==
    LET idx == MapGet(c.id_to_nodeidx, id)
    IN  IF ~IsSome(idx) THEN [ok |-> TRUE, err |-> NoErr, self |-> c]
        ELSE [ok |-> TRUE, err |-> NoErr, self |-> [c EXCEPT !.current = Unwrap(idx)]]

(* jump_to refusing a node that no edge from the current node leads to *)
jump_to_adjacent_only(c, id) ==
    LET idx == MapGet(c.id_to_nodeidx, id)
    IN  IF ~IsSome(idx) THEN [ok |-> FALSE, err |-> WrongJump(id), self |-> c]
        ELSE IF \A k \in OutEdges(c.graph, c.current) : c.graph.edges[k][2] # Unwrap(idx)
        THEN [ok |-> FALSE, err |-> WrongJump(id), self |-> c]
        ELSE [ok |-> TRUE, err |-> NoErr, self |-> [c EXCEPT !.current = Unwrap(idx)]]

jump_to(c, id) ==
    LET idx == MapGet(c.id_to_nodeidx, id)
    IN  IF ~IsSome(idx) THEN [ok |-> FALSE, err |-> WrongJump(id), self |-> c]
        ELSE [ok |-> TRUE, err |-> NoErr, self |-> [c EXCEPT !.current = Unwrap(idx)]]

(* choices returning the choice list in edge order, most recent edge first *)
choices_reversed(c) ==
    LET dnode == NodeWeight(c.graph, c.current)
        vc == Unwrap(Unwrap(dnode).choices)
    IN  IF ~IsSome(dnode) THEN [ok |-> FALSE, err |-> InvalidDialogue, val |-> <<>>]
        ELSE IF IsSome(Unwrap(dnode).choices)
        THEN [ok |-> TRUE, err |-> NoErr, val |-> [k \in DOMAIN vc |-> vc[Len(vc) + 1 - k]]]
        ELSE [ok |-> FALSE, err |-> NoChoices, val |-> <<>>]

choices(c) ==
    LET dnode == NodeWeight(c.graph, c.current)
    IN  IF ~IsSome(dnode) THEN [ok |-> FALSE, err |-> InvalidDialogue, val |-> <<>>]
        ELSE IF IsSome(Unwrap(dnode).choices)
        THEN [ok |-> TRUE, err |-> NoErr, val |-> Unwrap(Unwrap(dnode).choices)]
        ELSE [ok |-> FALSE, err |-> NoChoices, val |-> <<>>]

----------------------------------------------------------------------------------------------------------------------------------------------------------------------------------------------------
(* The raw scripts the model is run on.  Ids are opaque keys (the program
   only tests them for equality and uses them as map keys), so scripts are
   enumerated up to renaming: an entry's id is one an earlier entry has or
   the least unused one.  The weight of a raw script counts its optional
   parts: an explicit next, a start flag, each choice, each actor reference
   and each actor of the table. *)

ScriptIds == 1..MaxLen

JumpIds == 1..(MaxLen + 1)

ActorKeys == {"bob", "alice"}

Actor(key) == [name |-> key, asset |-> "png"]

ActorTables == {[k \in K |-> Actor(k)] : K \in {{}, {"bob"}}}

RECURSIVE SeqsOfLen(_, _)
SeqsOfLen(S, n) ==
    IF n = 0 THEN {<<>>} ELSE {Append(q, x) : q \in SeqsOfLen(S, n - 1), x \in S}

Options(S) == {None} \cup {Some(x) : x \in S}

Weight(a) ==
    Len(a.next) + Len(a.start) + Len(a.choices)
    + (IF IsSome(a.actors) THEN Len(Unwrap(a.actors)) ELSE 0)

RECURSIVE SumWeight(_)
SumWeight(script) ==
    IF script = <<>> THEN 0 ELSE Weight(Head(script)) + SumWeight(Tail(script))

RawWeight(raw) == Cardinality(DOMAIN raw.actors) + SumWeight(raw.script)

UsedIds(script) == {script[i].id : i \in DOMAIN script}

(* The ids, start flags, next fields, actor lists and choice lists an
   entry appended to raw can have *)
IdsFor(raw) == 1..(Cardinality(UsedIds(raw.script)) + 1)

StartsFor(raw) == {s \in Options(BOOLEAN) : RawWeight(raw) + Len(s) <= MaxWeight}

NextsFor(raw, start) ==
    {n \in Options(ScriptIds) : RawWeight(raw) + Len(start) + Len(n) <= MaxWeight}

ActorListsFor(raw, start, next) ==
    Options(UNION {SeqsOfLen(ActorKeys, k) :
                      k \in 1..(MaxWeight - RawWeight(raw) - Len(start) - Len(next))})

(* The display texts a choice can have *)
ChoiceTexts == {"Whatup", "Bye"}

ChoiceListsFor(raw, start) ==
    UNION {SeqsOfLen({Choice(t, n) : t \in ChoiceTexts, n \in ScriptIds}, k) :
              k \in 0..(MaxWeight - RawWeight(raw) - Len(start))}

----------------------------------------------------------------------------
(* The state machine: a raw script is assembled entry by entry and handed
   to Conversation::new; the instance it returns is then driven by its
   host. *)

NoCall == [op |-> "none", arg |-> None, ok |-> TRUE, err |-> NoErr, val |-> <<>>]

(* No file parsed yet, and no result of load *)
NoFile == [actors |-> <<>>, script |-> <<>>]

NotLoaded == [ok |-> FALSE, err |-> NoErr, val |-> NoFile]

Init ==
    /\ raw_script \in {[actors |-> t, script |-> <<>>] : t \in ActorTables}
    /\ pc = "script"
    /\ new_result = NoErr
    /\ convo = None
    /\ graph_local = EmptyGraph
    /\ last_call = NoCall
    /\ ron_talk = NoFile
    /\ load_result = NotLoaded
    /\ instances = <<>>
    /\ alone = <<>>

PushActor ==
    /\ pc = "script"
    /\ Len(raw_script.script) < MaxLen
    /\ \E id \in IdsFor(raw_script) : \E start \in StartsFor(raw_script) :
       \E next \in NextsFor(raw_script, start) :
       \E actors \in ActorListsFor(raw_script, start, next) :
          raw_script' = [raw_script EXCEPT !.script =
                            Append(@, ActorAction(id, Some("Hello"), actors, next, start))]
    /\ UNCHANGED <<pc, new_result, convo, graph_local, last_call>>
    /\ UNCHANGED <<loader_vars, pair_vars>>

PushPlayer ==
    /\ pc = "script"
    /\ Len(raw_script.script) < MaxLen
    /\ \E id \in IdsFor(raw_script) : \E start \in StartsFor(raw_script) :
       \E chs \in ChoiceListsFor(raw_script, start) :
          raw_script' = [raw_script EXCEPT !.script = Append(@, PlayerAction(id, chs, start))]
    /\ UNCHANGED <<pc, new_result, convo, graph_local, last_call>>
    /\ UNCHANGED <<loader_vars, pair_vars>>

New ==
    /\ pc = "script"
    /\ \E r \in ConversationNew(raw_script) :
          /\ pc' = IF r.ok THEN "built" ELSE "failed"
          /\ new_result' = r.err
          /\ convo' = IF r.ok THEN Some(Instance(r)) ELSE None
          /\ graph_local' = r.graph
    /\ last_call' = NoCall
    /\ UNCHANGED raw_script
    /\ UNCHANGED <<loader_vars, pair_vars>>

NextLine ==
    /\ pc = "built"
    /\ LET r == next_line(Unwrap(convo))
       IN  /\ convo' = Some(r.self)
           /\ last_call' = [op |-> "next_line", arg |-> None, ok |-> r.ok, err |-> r.err,
                            val |-> <<>>]
    /\ UNCHANGED <<raw_script, pc, new_result, graph_local>>
    /\ UNCHANGED <<loader_vars, pair_vars>>

JumpTo ==
    /\ pc = "built"
    /\ \E id \in JumpIds :
          LET r == jump_to(Unwrap(convo), id)
          IN  /\ convo' = Some(r.self)
              /\ last_call' = [op |-> "jump_to", arg |-> Some(id), ok |-> r.ok,
                               err |-> r.err, val |-> <<>>]
    /\ UNCHANGED <<raw_script, pc, new_result, graph_local>>
    /\ UNCHANGED <<loader_vars, pair_vars>>

Choices ==
    /\ pc = "built"
    /\ LET r == choices(Unwrap(convo))
       IN  last_call' = [op |-> "choices", arg |-> None, ok |-> r.ok, err |-> r.err,
                         val |-> r.val]
    /\ UNCHANGED <<raw_script, pc, new_result, graph_local, convo>>
    /\ UNCHANGED <<loader_vars, pair_vars>>

Next == PushActor \/ PushPlayer \/ New \/ NextLine \/ JumpTo \/ Choices

Spec == Init /\ [][Next]_vars

----------------------------------------------------------------------------
(* Properties of Conversation::new.  They are stated about the states in
   which new has just returned, in terms of the raw script it was given. *)

Script == raw_script.script

(* new has returned and no traversal operation has been called yet *)
Returned == pc \in {"built", "failed"} /\ last_call.op = "none"

Built == Returned /\ pc = "built"

FailedWith(tag) == Returned /\ pc = "failed" /\ new_result.tag = tag

Cursor == Unwrap(convo).current

BuiltGraph == Unwrap(convo).graph

(* Node index of the node built from entry i *)
NodeOf(i) == i - 1

DistinctIds(sc) == \A i, j \in DOMAIN sc : i # j => sc[i].id # sc[j].id

(* The ids that two or more entries of sc have *)
RepeatedIds(sc) == {sc[i].id : i \in {k \in DOMAIN sc : \E j \in DOMAIN sc : j # k /\ sc[j].id = sc[k].id}}

UnresolvedActors(raw, i) ==
    IF raw.script[i].kind = "Actor" /\ IsSome(raw.script[i].actors)
    THEN {k \in DOMAIN Unwrap(raw.script[i].actors) :
             Unwrap(raw.script[i].actors)[k] \notin DOMAIN raw.actors}
    ELSE {}

ActorsResolve(raw) == \A i \in DOMAIN raw.script : UnresolvedActors(raw, i) = {}

StartFlagged(sc) == {i \in DOMAIN sc : sc[i].start = Some(TRUE)}

(* The explicit next id and the choice target ids of an entry *)
TargetsOf(a) ==
    IF a.kind = "Actor" THEN {a.next[k] : k \in DOMAIN a.next}
    ELSE {a.choices[k].next : k \in DOMAIN a.choices}

TargetsResolve(sc) == \A i \in DOMAIN sc : TargetsOf(sc[i]) \subseteq UsedIds(sc)

ValidScript(raw) ==
    /\ Len(raw.script) > 0
    /\ DistinctIds(raw.script)
    /\ ActorsResolve(raw)
    /\ Cardinality(StartFlagged(raw.script)) = 1
    /\ TargetsResolve(raw.script)

(* C1: Conversation::new returns a built instance if and only if the script
   is non-empty, its ids are pairwise distinct, every actor reference is a
   key of the actor table, exactly one entry has start = true and every
   explicit next id and choice target id is the id of some entry; in every
   other case it returns a construction error and no instance. *)
C1_BuiltIffValid ==
    Returned =>
        /\ Built <=> ValidScript(raw_script)
        /\ Built => (IsSome(convo) /\ new_result = NoErr)
        /\ ~Built => (convo = None /\ new_result.tag # "None")

C1_Witness ==
    /\ Built
    /\ Len(Script) = MaxLen
    /\ \E i \in DOMAIN Script : Script[i].kind = "Player" /\ Len(Script[i].choices) > 0

(* C4: on a script with zero entries new fails with EmptyScript, and
   EmptyScript is returned for no non-empty script. *)
C4_EmptyScriptIffEmpty ==
    Returned => (Len(Script) = 0 <=> FailedWith("EmptyScript"))

C4_Witness == FailedWith("EmptyScript") /\ Len(Script) = 0

(* C5: for a non-empty script with distinct ids, resolvable actor
   references and resolvable next and choice targets, new fails with
   NoStartingAction when no entry has start = true, and when exactly one
   entry has start = true the cursor of the returned instance is the node
   created from that entry. *)
C5_StartNode ==
    (/\ Returned
     /\ Len(Script) > 0
     /\ DistinctIds(Script)
     /\ ActorsResolve(raw_script)
     /\ TargetsResolve(Script)) =>
        /\ StartFlagged(Script) = {} => FailedWith("NoStartingAction")
        /\ \A i \in DOMAIN Script :
              StartFlagged(Script) = {i} =>
                 /\ Built
                 /\ Cursor = NodeOf(i)
                 /\ Unwrap(convo).id_to_nodeidx[Script[i].id] = Cursor
                 /\ IsSome(BuiltGraph.nodes[Cursor + 1].choices) <=> Script[i].kind = "Player"

C5_Witness ==
    /\ Built
    /\ Len(Script) = MaxLen
    /\ StartFlagged(Script) = {2}
    /\ Cursor = 1

Min(S) == CHOOSE x \in S : \A y \in S : x <= y

(* The first entry whose id an earlier entry already has *)
FirstRepeat(sc) == Min({j \in DOMAIN sc : \E i \in 1..(j - 1) : sc[i].id = sc[j].id})

(* C2, as claimed: every script with two entries of the same id fails with
   RepeatedId carrying that id, whatever the kinds and the other fields of
   the entries. *)
C2_RepeatedIdAlways ==
    (Returned /\ ~DistinctIds(Script)) =>
        /\ FailedWith("RepeatedId")
        /\ new_result.args[1] \in RepeatedIds(Script)

(* C2, amended: every script with two entries of the same id fails to
   build; it fails with RepeatedId carrying an id that two entries share
   whenever, among the entries up to and including the first one that
   repeats an earlier id, every actor reference resolves and at most one
   entry has start = true, whatever the kinds and the next fields of the
   entries. *)
C2_RepeatedIdUnlessEarlierError ==
    (Returned /\ ~DistinctIds(Script)) =>
        /\ pc = "failed"
        /\ (/\ \A i \in 1..FirstRepeat(Script) : UnresolvedActors(raw_script, i) = {}
            /\ Cardinality(StartFlagged(Script) \cap 1..FirstRepeat(Script)) <= 1)
           => /\ new_result.tag = "RepeatedId"
              /\ new_result.args[1] \in RepeatedIds(Script)

C2_Witness ==
    /\ FailedWith("RepeatedId")
    /\ Len(Script) = MaxLen
    /\ Script[1].id = Script[3].id
    /\ Script[1].kind = "Player"
    /\ Script[3].kind = "Actor"
    /\ Script[2].start = Some(TRUE)

(* An entry with an explicit next has the id of an earlier entry *)
ExplicitNextRepeats(sc) ==
    \E k \in DOMAIN sc :
        /\ sc[k].kind = "Actor"
        /\ IsSome(sc[k].next)
        /\ \E i \in 1..(k - 1) : sc[i].id = sc[k].id

(* The second entry, in script order, with start = true *)
SecondStart(sc) == Min(StartFlagged(sc) \ {Min(StartFlagged(sc))})

(* C3, as claimed: every script in which two or more entries have
   start = true fails with MultipleStartingAction. *)
C3_MultipleStartAlways ==
    (Returned /\ Cardinality(StartFlagged(Script)) >= 2) =>
        FailedWith("MultipleStartingAction")

(* C3, amended: every script in which two or more entries have start = true
   fails to build; it fails with MultipleStartingAction, for any mix of
   actor and player entries, whenever no entry with an explicit next
   repeats the id of an earlier entry, the entries before the second
   start-flagged entry have pairwise distinct ids and the actor references
   of the entries up to and including the second start-flagged entry all
   resolve; this includes start-flagged entries that share an id and have
   no explicit next. *)
C3_MultipleStartUnlessEarlierError ==
    (Returned /\ Cardinality(StartFlagged(Script)) >= 2) =>
        /\ pc = "failed"
        /\ (/\ ~ExplicitNextRepeats(Script)
            /\ DistinctIds(SubSeq(Script, 1, SecondStart(Script) - 1))
            /\ \A i \in 1..SecondStart(Script) : UnresolvedActors(raw_script, i) = {})
           => new_result.tag = "MultipleStartingAction"

C3_Witness ==
    /\ FailedWith("MultipleStartingAction")
    /\ Len(Script) = 2
    /\ Script[1].id = Script[2].id
    /\ Script[1].kind = "Actor"
    /\ Script[2].kind = "Player"

(* C6: when some explicit next id or choice target id names no entry of an
   otherwise valid script, new fails with NextActionNotFound(s, t) where s
   is the id of an entry and t is a next id or choice target of that same
   entry that is the id of no entry; this holds for the choice targets of a
   player entry at any position, last or not. *)
C6_NextActionNotFound ==
    (/\ Returned
     /\ Len(Script) > 0
     /\ DistinctIds(Script)
     /\ ActorsResolve(raw_script)
     /\ Cardinality(StartFlagged(Script)) <= 1
     /\ ~TargetsResolve(Script)) =>
        /\ FailedWith("NextActionNotFound")
        /\ \E i \in DOMAIN Script :
              /\ new_result.args[1] = Script[i].id
              /\ new_result.args[2] \in TargetsOf(Script[i])
              /\ new_result.args[2] \notin UsedIds(Script)

C6_Witness ==
    /\ FailedWith("NextActionNotFound")
    /\ DistinctIds(Script)
    /\ Cardinality(StartFlagged(Script)) = 1
    /\ \E i \in 1..(Len(Script) - 1) :
          /\ Script[i].kind = "Player"
          /\ new_result.args[1] = Script[i].id
          /\ new_result.args[2] \in TargetsOf(Script[i])

(* The first entry, in script order, with an unresolved actor reference *)
FirstUnresolvedEntry(raw) == Min({i \in DOMAIN raw.script : UnresolvedActors(raw, i) # {}})

(* C7: if some actor line references an actor id that is no key of the
   actor table (ids distinct, at most one start flag), new fails with
   ActorNotFound(e, a) where e is the id of the first entry in script order
   with an unresolved reference and a is the first unresolved reference of
   that entry's actor list; the error comes before any next-target
   validation and before the no-start check. *)
C7_ActorNotFound ==
    (/\ Returned
     /\ DistinctIds(Script)
     /\ Cardinality(StartFlagged(Script)) <= 1
     /\ ~ActorsResolve(raw_script)) =>
        /\ FailedWith("ActorNotFound")
        /\ new_result.args[1] = Script[FirstUnresolvedEntry(raw_script)].id
        /\ new_result.args[2] =
              Unwrap(Script[FirstUnresolvedEntry(raw_script)].actors)[
                  Min(UnresolvedActors(raw_script, FirstUnresolvedEntry(raw_script)))]

C7_Witness ==
    /\ FailedWith("ActorNotFound")
    /\ DistinctIds(Script)
    /\ StartFlagged(Script) = {}
    /\ ~TargetsResolve(Script)
    /\ FirstUnresolvedEntry(raw_script) = 2

(* C8, as claimed: in every built graph the node of a player entry with k
   choices has exactly k outgoing edges, one per choice, and no additional
   edge to the entry that follows it in the script. *)
C8_PlayerFanOut ==
    Built =>
        \A i \in DOMAIN Script :
            Script[i].kind = "Player" =>
                OutDegree(BuiltGraph, NodeOf(i)) = Len(Script[i].choices)

(* The script of new_with_branching: a start-flagged player entry whose two
   choices name the two actor entries that follow it, both without next *)
BranchingScript(sc) ==
    /\ Len(sc) = 3
    /\ DistinctIds(sc)
    /\ sc[1].kind = "Player" /\ sc[1].start = Some(TRUE)
    /\ Len(sc[1].choices) = 2
    /\ sc[1].choices[1].next = sc[2].id
    /\ sc[1].choices[2].next = sc[3].id
    /\ \A i \in {2, 3} :
          /\ sc[i].kind = "Actor"
          /\ sc[i].next = None /\ sc[i].start = None /\ sc[i].actors = None

(* C9: building the script [player entry with start = true and two choices
   targeting ids 2 and 3, actor entry 2 without next, actor entry 3 without
   next] succeeds with exactly 3 nodes and exactly 4 edges, the cursor on
   the player entry's node. *)
C9_Branching ==
    (Returned /\ BranchingScript(Script)) =>
        /\ Built
        /\ NodeCount(BuiltGraph) = 3
        /\ EdgeCount(BuiltGraph) = 4
        /\ Cursor = NodeOf(1)
        /\ IsSome(BuiltGraph.nodes[Cursor + 1].choices)

C9_Witness == Built /\ BranchingScript(Script) /\ EdgeCount(BuiltGraph) = 4

(* The targets of the outgoing edges of node a *)
Successors(g, a) == {g.edges[k][2] : k \in OutEdges(g, a)}

(* C10: in every built graph an actor line without explicit next that is
   not last in the script has exactly one outgoing edge, to the node of the
   entry that follows it; one that is last has no outgoing edge. *)
C10_ImplicitChain ==
    Built =>
        \A i \in DOMAIN Script :
            (Script[i].kind = "Actor" /\ Script[i].next = None) =>
                /\ i < Len(Script) =>
                      /\ OutDegree(BuiltGraph, NodeOf(i)) = 1
                      /\ Successors(BuiltGraph, NodeOf(i)) = {NodeOf(i + 1)}
                /\ i = Len(Script) => OutDegree(BuiltGraph, NodeOf(i)) = 0

C10_Witness ==
    /\ Built
    /\ Len(Script) = MaxLen
    /\ \A i \in DOMAIN Script : Script[i].kind = "Actor" /\ Script[i].next = None
    /\ EdgeCount(BuiltGraph) = MaxLen - 1

----------------------------------------------------------------------------
(* Cycles *)

(* Entry j is a successor of entry i in the script: the target of i's
   explicit next or of one of its choices, or the entry below i when i has
   no explicit next *)
ScriptSucc(sc, i, j) ==
    \/ sc[j].id \in TargetsOf(sc[i])
    \/ ActionNext(sc[i]) = None /\ j = i + 1

RECURSIVE ReachIn(_, _, _)
ReachIn(sc, S, n) ==
    IF n = 0 THEN S
    ELSE ReachIn(sc, S \cup {j \in DOMAIN sc : \E i \in S : ScriptSucc(sc, i, j)}, n - 1)

(* Some entry of sc is its own successor after one or more steps *)
CyclicScript(sc) ==
    \E i \in DOMAIN sc :
        i \in ReachIn(sc, {j \in DOMAIN sc : ScriptSucc(sc, i, j)}, Len(sc))

(* A single start-flagged actor entry whose explicit next is its own id *)
SelfLoopScript(sc) ==
    /\ Len(sc) = 1
    /\ sc[1].kind = "Actor"
    /\ sc[1].start = Some(TRUE)
    /\ sc[1].next = Some(sc[1].id)

(* C11: a script of a single start entry whose explicit next is its own id
   (its actor references, if it has any, resolving) builds into a graph of
   exactly one node and exactly one edge, from the node to itself, with the
   cursor on that node; and no valid script is rejected for containing a
   self-loop or a longer cycle. *)
C11_SelfLoop ==
    /\ (Returned /\ SelfLoopScript(Script) /\ ActorsResolve(raw_script)) =>
          /\ Built
          /\ NodeCount(BuiltGraph) = 1
          /\ BuiltGraph.edges = <<(<<0, 0>>)>>
          /\ Cursor = 0
    /\ (Returned /\ ValidScript(raw_script) /\ CyclicScript(Script)) => Built

C11_Witness == Built /\ SelfLoopScript(Script) /\ EdgeCount(BuiltGraph) = 1

(* A cycle through two entries, built *)
C11_LongerCycleReached ==
    /\ Built
    /\ Len(Script) >= 2
    /\ CyclicScript(Script)
    /\ \A i \in DOMAIN Script : Script[i].id \notin TargetsOf(Script[i])

----------------------------------------------------------------------------
(* Properties of next_line, jump_to and choices.  In a step of the built
   instance the unprimed variables are the instance before the call, and
   last_call' names the operation called and what it returned. *)

(* The script entry the node under the cursor was built from *)
CursorEntry == Script[Cursor + 1]

OnPlayerEntry == pc = "built" /\ CursorEntry.kind = "Player"

OnActorEntry == pc = "built" /\ CursorEntry.kind = "Actor"

Called(op) == last_call'.op = op

(* C12: next_line called with the cursor on a node built from a player
   entry fails with ChoicesNotHandled, whether or not the node has outgoing
   edges; choices called with the cursor on a node built from an actor
   entry fails with NoChoices. *)
C12_ModeEnforcement ==
    [][/\ (OnPlayerEntry /\ Called("next_line")) =>
             (~last_call'.ok /\ last_call'.err = ChoicesNotHandled)
       /\ (OnActorEntry /\ Called("choices")) =>
             (~last_call'.ok /\ last_call'.err = NoChoices)]_vars

C12_Witness ==
    /\ pc = "built"
    /\ last_call.op = "next_line"
    /\ last_call.err = ChoicesNotHandled
    /\ CursorEntry.kind = "Player"
    /\ OutDegree(BuiltGraph, Cursor) > 0

(* The position in sc of the entry of the given id *)
IndexOfId(sc, id) == CHOOSE i \in DOMAIN sc : sc[i].id = id

(* The actor entry i has a successor: an explicit next, or an entry below *)
HasSuccessor(sc, i) == IsSome(sc[i].next) \/ i < Len(sc)

(* The position of the entry that the actor entry i leads to *)
SuccessorOf(sc, i) ==
    IF IsSome(sc[i].next) THEN IndexOfId(sc, Unwrap(sc[i].next)) ELSE i + 1

(* C13: with the cursor on a line node that has a successor, next_line
   succeeds and sets the cursor to the node of the entry named by the
   line's explicit next id if it has one, otherwise to the node of the
   entry immediately following it in the script. *)
C13_NextLineSuccessor ==
    [][(/\ OnActorEntry
        /\ Called("next_line")
        /\ HasSuccessor(Script, Cursor + 1)) =>
           /\ last_call'.ok
           /\ last_call'.err = NoErr
           /\ Unwrap(convo').current = NodeOf(SuccessorOf(Script, Cursor + 1))]_vars

(* next_line has followed the explicit next of the third entry back to the
   first: no other entry leads to the first *)
C13_Witness ==
    /\ pc = "built"
    /\ last_call.op = "next_line" /\ last_call.ok
    /\ Len(Script) = 3
    /\ \A i \in 1..3 : Script[i].kind = "Actor"
    /\ Script[1].next = None /\ Script[2].next = None
    /\ Script[3].next = Some(Script[1].id)
    /\ Cursor = NodeOf(1)

(* The cursor is on a line node without outgoing edges *)
OnTerminalLine == OnActorEntry /\ OutDegree(BuiltGraph, Cursor) = 0

(* C14: with the cursor on a line node with zero outgoing edges, next_line
   fails with NoNextDialogue and leaves the instance as it was, so a
   repeated call fails the same way; the cursor stays on that node until a
   jump_to succeeds. *)
C14_NoNextDialogue ==
    /\ [](OnTerminalLine =>
             next_line(Unwrap(convo)) =
                 [ok |-> FALSE, err |-> NoNextDialogue, self |-> Unwrap(convo)])
    /\ [][OnTerminalLine =>
             /\ Called("next_line") =>
                   /\ ~last_call'.ok
                   /\ last_call'.err = NoNextDialogue
                   /\ convo' = convo
             /\ ~(Called("jump_to") /\ last_call'.ok) => OnTerminalLine']_vars

C14_Witness ==
    /\ OnTerminalLine
    /\ last_call.op = "next_line"
    /\ ~last_call.ok
    /\ last_call.err = NoNextDialogue
    /\ Len(Script) > 1

(* n >= 1 actor entries of distinct ids, the first one the start entry, each
   without next or with the id of the entry below as next, the last one
   without next; the actor references, if any, resolve *)
ChainScript(raw) ==
    LET sc == raw.script
    IN  /\ Len(sc) >= 1
        /\ \A i \in DOMAIN sc : sc[i].kind = "Actor"
        /\ DistinctIds(sc)
        /\ StartFlagged(sc) = {1}
        /\ ActorsResolve(raw)
        /\ \A i \in 1..(Len(sc) - 1) : sc[i].next \in {None, Some(sc[i + 1].id)}
        /\ sc[Len(sc)].next = None

(* What next_line returns on the instance c built from a chain of n entries *)
ChainStep(c, n) ==
    IF c.current + 1 < n
    THEN [ok |-> TRUE, err |-> NoErr, self |-> [c EXCEPT !.current = c.current + 1]]
    ELSE [ok |-> FALSE, err |-> NoNextDialogue, self |-> c]

(* C15: a chain script of n entries builds into n nodes and n - 1 edges (2
   nodes and 1 edge for n = 2) with the cursor on the first entry; from
   there each next_line call moves the cursor to the next entry in
   authoring order while an entry is left, which makes exactly n - 1
   consecutive successful calls, and the call made on the last entry fails
   with NoNextDialogue. *)
C15_Chain ==
    /\ []((Returned /\ ChainScript(raw_script)) =>
             /\ Built
             /\ Cursor = NodeOf(1)
             /\ NodeCount(BuiltGraph) = Len(Script)
             /\ EdgeCount(BuiltGraph) = Len(Script) - 1)
    /\ []((pc = "built" /\ ChainScript(raw_script)) =>
             next_line(Unwrap(convo)) = ChainStep(Unwrap(convo), Len(Script)))
    /\ [][(pc = "built" /\ ChainScript(raw_script) /\ Called("next_line")) =>
             /\ convo' = Some(ChainStep(Unwrap(convo), Len(Script)).self)
             /\ last_call'.ok = ChainStep(Unwrap(convo), Len(Script)).ok
             /\ last_call'.err = ChainStep(Unwrap(convo), Len(Script)).err]_vars

(* The last entry of a chain of MaxLen entries, reached by next_line, with
   the next call failing *)
C15_Witness ==
    /\ pc = "built"
    /\ ChainScript(raw_script)
    /\ Len(Script) = MaxLen
    /\ Script[1].next = Some(Script[2].id)
    /\ Cursor = NodeOf(MaxLen)
    /\ last_call.op = "next_line"
    /\ last_call.err = NoNextDialogue

(* The id passed to the jump_to call of the step *)
JumpArg == Unwrap(last_call'.arg)

(* C16: for every id of an entry of the script, jump_to(id) succeeds from
   any cursor position and sets the cursor to the node built from the entry
   of that id, whether or not an edge leads from the old cursor node to the
   new one. *)
C16_JumpToEntry ==
    [][(pc = "built" /\ Called("jump_to") /\ JumpArg \in UsedIds(Script)) =>
          /\ last_call'.ok
          /\ last_call'.err = NoErr
          /\ Unwrap(convo').current = NodeOf(IndexOfId(Script, JumpArg))]_vars

(* jump_to has moved the cursor to a node that no edge leads to *)
C16_Witness ==
    /\ pc = "built"
    /\ last_call.op = "jump_to" /\ last_call.ok
    /\ Cursor = NodeOf(IndexOfId(Script, Unwrap(last_call.arg)))
    /\ Cursor + 1 \notin StartFlagged(Script)
    /\ \A k \in DOMAIN BuiltGraph.edges : BuiltGraph.edges[k][2] # Cursor

(* C17: for every id that is the id of no script entry, jump_to(id) fails
   with WrongJump(id), the error carrying exactly that id. *)
C17_WrongJump ==
    [][(pc = "built" /\ Called("jump_to") /\ JumpArg \notin UsedIds(Script)) =>
          /\ ~last_call'.ok
          /\ last_call'.err = WrongJump(JumpArg)]_vars

C17_Witness ==
    /\ pc = "built"
    /\ last_call.op = "jump_to"
    /\ ~last_call.ok
    /\ Unwrap(last_call.arg) \notin UsedIds(Script)
    /\ last_call.err = WrongJump(Unwrap(last_call.arg))

(* C18: whenever next_line, choices or jump_to returns an error, the cursor
   after the call is the cursor before it, and every operation gives on the
   instance after the call the result it gave on the instance before it. *)
C18_ErrorsLeaveCursor ==
    [][(pc = "built" /\ pc' = "built" /\ ~last_call'.ok) =>
          /\ last_call'.err.tag \in {"ChoicesNotHandled", "NoNextDialogue", "NoChoices",
                                     "WrongJump", "InvalidDialogue"}
          /\ Unwrap(convo').current = Cursor
          /\ convo' = convo
          /\ next_line(Unwrap(convo')) = next_line(Unwrap(convo))
          /\ choices(Unwrap(convo')) = choices(Unwrap(convo))
          /\ \A id \in JumpIds : jump_to(Unwrap(convo'), id) = jump_to(Unwrap(convo), id)]_vars

(* A failed jump_to with the cursor away from the start node *)
C18_Witness ==
    /\ pc = "built"
    /\ last_call.op = "jump_to"
    /\ ~last_call.ok
    /\ last_call.err.tag = "WrongJump"
    /\ Cursor + 1 \notin StartFlagged(Script)

(* C19: after a successful construction and any sequence of next_line,
   choices and jump_to calls, successful or failing, the cursor is the
   index of a node of the graph, and no traversal operation has returned or
   would return InvalidDialogue. *)
C19_CursorInGraph ==
    pc = "built" =>
        /\ Cursor \in 0..(NodeCount(BuiltGraph) - 1)
        /\ IsSome(NodeWeight(BuiltGraph, Cursor))
        /\ last_call.err # InvalidDialogue
        /\ next_line(Unwrap(convo)).err # InvalidDialogue
        /\ choices(Unwrap(convo)).err # InvalidDialogue

(* The cursor on the last node of a graph of MaxLen nodes, after a call *)
C19_Witness ==
    /\ pc = "built"
    /\ last_call.op = "choices"
    /\ NodeCount(BuiltGraph) = MaxLen
    /\ Cursor = MaxLen - 1
    /\ MaxLen \notin StartFlagged(Script)

(* C20: with the cursor on a node built from a player entry, choices
   returns exactly that entry's choice list, of the same length and with the
   text and the target id of the k-th authored choice at position k; it
   leaves the instance as it was, so calling it again returns the same
   list. *)
C20_ChoicesList ==
    /\ [](OnPlayerEntry =>
             choices(Unwrap(convo)) =
                 [ok |-> TRUE, err |-> NoErr, val |-> CursorEntry.choices])
    /\ [][(OnPlayerEntry /\ Called("choices")) =>
             /\ last_call'.ok
             /\ Len(last_call'.val) = Len(CursorEntry.choices)
             /\ \A k \in DOMAIN CursorEntry.choices :
                   /\ last_call'.val[k].text = CursorEntry.choices[k].text
                   /\ last_call'.val[k].next = CursorEntry.choices[k].next
             /\ convo' = convo]_vars

(* choices has returned two choices that differ in text and in target *)
C20_Witness ==
    /\ OnPlayerEntry
    /\ last_call.op = "choices" /\ last_call.ok
    /\ last_call.val = CursorEntry.choices
    /\ Len(last_call.val) = 2
    /\ last_call.val[1].text # last_call.val[2].text
    /\ last_call.val[1].next # last_call.val[2].next

(* C21, as claimed: every choice node of a built conversation has a
   non-empty choice list, so choices never succeeds with an empty list. *)
C21_ChoiceListsNonEmpty ==
    pc = "built" =>
        /\ \A k \in DOMAIN BuiltGraph.nodes :
              IsSome(BuiltGraph.nodes[k].choices) =>
                  Len(Unwrap(BuiltGraph.nodes[k].choices)) > 0
        /\ (last_call.op = "choices" /\ last_call.ok) => Len(last_call.val) > 0

(* C22, as claimed: reference validation completes before edge creation, so
   every run of new that ends in NextActionNotFound has added no edge to
   its graph. *)
C22_NoEdgeBeforeValidation ==
    FailedWith("NextActionNotFound") => EdgeCount(graph_local) = 0

(* C23: in every built graph every node built from an actor entry has at
   most one outgoing edge, so the successor next_line takes from a line node
   is the only one there is. *)
C23_LineNodeOutDegree ==
    pc = "built" =>
        \A i \in DOMAIN Script :
            Script[i].kind = "Actor" =>
                /\ OutDegree(BuiltGraph, NodeOf(i)) <= 1
                /\ IsSome(FirstOutEdge(BuiltGraph, NodeOf(i))) =>
                      Successors(BuiltGraph, NodeOf(i)) =
                          {Unwrap(FirstOutEdge(BuiltGraph, NodeOf(i)))[2]}

(* An actor entry with an explicit next that is not the entry below it, and
   with exactly one outgoing edge *)
C23_Witness ==
    /\ Built
    /\ Len(Script) = MaxLen
    /\ Script[1].kind = "Actor"
    /\ Script[1].next = Some(Script[3].id)
    /\ OutDegree(BuiltGraph, NodeOf(1)) = 1

(* C24: once the cursor is on a choice node it stays on that node until a
   jump_to succeeds: no next_line or choices call moves it, even when the
   node has an outgoing edge to the entry that follows it in the script. *)
C24_NoFallThrough ==
    [][(OnPlayerEntry /\ pc' = "built" /\ ~(Called("jump_to") /\ last_call'.ok)) =>
          /\ Unwrap(convo').current = Cursor
          /\ OnPlayerEntry']_vars

(* The cursor on a choice node that has an edge to the entry below it,
   after a call of choices *)
C24_Witness ==
    /\ OnPlayerEntry
    /\ last_call.op = "choices"
    /\ Cursor + 1 < Len(Script)
    /\ NodeOf(Cursor + 2) \in Successors(BuiltGraph, Cursor)
    /\ \A k \in DOMAIN CursorEntry.choices :
          CursorEntry.choices[k].next # Script[Cursor + 2].id

(* C25: traversal operations change nothing but the cursor: next_line and
   jump_to leave the nodes of the graph with their text, actors and
   choices, its edges and the id-to-node index as they were, and choices
   leaves the whole instance, cursor included, as it was. *)
C25_OnlyTheCursor ==
    /\ [](pc = "built" => BuiltGraph = graph_local)
    /\ [][(pc = "built" /\ pc' = "built") =>
             /\ Unwrap(convo').graph.nodes = BuiltGraph.nodes
             /\ Unwrap(convo').graph.edges = BuiltGraph.edges
             /\ Unwrap(convo').id_to_nodeidx = Unwrap(convo).id_to_nodeidx
             /\ Called("choices") => convo' = convo]_vars

(* next_line has moved the cursor along an edge that is still in the graph *)
C25_Witness ==
    /\ pc = "built"
    /\ last_call.op = "next_line" /\ last_call.ok
    /\ Cursor + 1 \notin StartFlagged(Script)
    /\ BuiltGraph = graph_local
    /\ \E k \in DOMAIN BuiltGraph.edges : BuiltGraph.edges[k][2] = Cursor

(* What jump_to(id) is to return on the instance c when id is an entry's *)
JumpLands(c, id) ==
    /\ jump_to(c, id).ok
    /\ jump_to(c, id).self.current = NodeOf(IndexOfId(Script, id))

(* C26: in every built conversation, for every choice node and every choice
   c of the list choices returns on it, jump_to(c.next) succeeds and puts
   the cursor on the node of the entry whose id is c.next; selecting a
   choice never fails with WrongJump. *)
C26_ChoiceTargetsJump ==
    /\ [](pc = "built" =>
             \A k \in DOMAIN BuiltGraph.nodes :
                 LET r == choices([Unwrap(convo) EXCEPT !.current = k - 1])
                 IN  r.ok => \A j \in DOMAIN r.val : JumpLands(Unwrap(convo), r.val[j].next))
    /\ [][(/\ pc = "built"
           /\ last_call.op = "choices" /\ last_call.ok
           /\ Called("jump_to")
           /\ \E j \in DOMAIN last_call.val : last_call.val[j].next = JumpArg) =>
              /\ last_call'.ok
              /\ Unwrap(convo').current = NodeOf(IndexOfId(Script, JumpArg))]_vars

(* jump_to has taken the cursor to the target of a choice of a player entry
   that is not last in the script *)
C26_Witness ==
    /\ pc = "built"
    /\ last_call.op = "jump_to" /\ last_call.ok
    /\ \E i \in 1..(Len(Script) - 1) :
          /\ Script[i].kind = "Player"
          /\ \E j \in DOMAIN Script[i].choices :
                /\ Script[i].choices[j].next = Unwrap(last_call.arg)
                /\ Script[i].choices[j].next # Script[i + 1].id
    /\ Cursor = NodeOf(IndexOfId(Script, Unwrap(last_call.arg)))

(* Two entries of sc lead, by an explicit or an implicit next, to the same
   entry, one of them by an explicit next *)
SharedNextTarget(sc) ==
    \E i, j \in DOMAIN sc :
        /\ i # j
        /\ sc[i].kind = "Actor" /\ IsSome(sc[i].next)
        /\ \/ sc[j].next = sc[i].next
           \/ /\ ActionNext(sc[j]) = None
              /\ j < Len(sc)
              /\ sc[j + 1].id = Unwrap(sc[i].next)

(* C27: new returns RepeatedId(x) only if at least two entries of the
   script have the id x; in particular a script of distinct ids in which
   two entries name the same next target, or in which the implicit
   successor of one entry is the explicit next of another, never fails with
   RepeatedId. *)
C27_RepeatedIdSound ==
    /\ FailedWith("RepeatedId") =>
          Cardinality({i \in DOMAIN Script : Script[i].id = new_result.args[1]}) >= 2
    /\ (Returned /\ DistinctIds(Script) /\ SharedNextTarget(Script)) =>
          new_result.tag # "RepeatedId"

(* A built script in which the entry below the first one is also the
   explicit next of the third *)
C27_Witness ==
    /\ Built
    /\ Len(Script) = 3
    /\ SharedNextTarget(Script)
    /\ Script[1].next = None
    /\ Script[3].next = Some(Script[2].id)

----------------------------------------------------------------------------
(* TalksLoader::load (src/src/ron_loader/loader.rs), from the parsed
   RonTalk on.  An IndexMap is the sequence of its <<key, value>> pairs in
   insertion order. *)

MaxRonLen == 3

DuplicateActionId(id) == [tag |-> "DuplicateActionId", args |-> <<id>>]

DuplicateActorId(id) == [tag |-> "DuplicateActorId", args |-> <<id>>]

IndexKeys(m) == {m[k][1] : k \in DOMAIN m}

(* IndexMap::insert: the map after the insert, and whether the key was there *)
IndexInsert(m, key, value) ==
    IF key \in IndexKeys(m)
    THEN [was |-> TRUE,
          map |-> [k \in DOMAIN m |-> IF m[k][1] = key THEN <<key, value>> ELSE m[k]]]
    ELSE [was |-> FALSE, map |-> Append(m, <<key, value>>)]

(* Actor { name: actor.name } *)
TalkActor(actor) == [name |-> actor.name]

(* action.into() *)
IntoAction(action) == [text |-> action.text]

(* 1. Build the actors vec *)
RECURSIVE LoadActorsFrom(_, _, _)
LoadActorsFrom(actors, i, talk_actors) ==
    IF i > Len(actors) THEN [ok |-> TRUE, err |-> NoErr, map |-> talk_actors]
    ELSE LET ins == IndexInsert(talk_actors, actors[i].id, TalkActor(actors[i]))
         IN  IF ins.was
             THEN [ok |-> FALSE, err |-> DuplicateActorId(actors[i].id), map |-> ins.map]
             ELSE LoadActorsFrom(actors, i + 1, ins.map)

(* 2. build the raw_actions vec *)
RECURSIVE LoadActionsFrom(_, _, _)
LoadActionsFrom(script, i, raw_actions) ==
    IF i > Len(script) THEN [ok |-> TRUE, err |-> NoErr, map |-> raw_actions]
    ELSE LET ins == IndexInsert(raw_actions, script[i].id, IntoAction(script[i]))
         IN  IF ins.was
             THEN [ok |-> FALSE, err |-> DuplicateActionId(script[i].id), map |-> ins.map]
             ELSE LoadActionsFrom(script, i + 1, ins.map)

(* load building the raw_actions before the actors *)
load_actions_first(talk) ==
    LET acts == LoadActionsFrom(talk.script, 1, <<>>)
        actors == LoadActorsFrom(talk.actors, 1, <<>>)
    IN  IF ~acts.ok THEN [ok |-> FALSE, err |-> acts.err, val |-> NoFile]
        ELSE IF ~actors.ok THEN [ok |-> FALSE, err |-> actors.err, val |-> NoFile]
        ELSE [ok |-> TRUE, err |-> NoErr, val |-> [actors |-> actors.map, script |-> acts.map]]

(* load, once from_bytes has returned the RonTalk talk *)
load(talk) ==
    LET actors == LoadActorsFrom(talk.actors, 1, <<>>)
        acts == LoadActionsFrom(talk.script, 1, <<>>)
    IN  IF ~actors.ok THEN [ok |-> FALSE, err |-> actors.err, val |-> NoFile]
        ELSE IF ~acts.ok THEN [ok |-> FALSE, err |-> acts.err, val |-> NoFile]
        ELSE [ok |-> TRUE, err |-> NoErr, val |-> [actors |-> actors.map, script |-> acts.map]]

(* The files the loader is run on *)
RonActorNames == {"Bob", "Alice"}

RonActionIds == 1..MaxRonLen

RonTexts == {"Hello"}

LoaderInit ==
    /\ raw_script = [actors |-> EmptyMap, script |-> <<>>]
    /\ pc = "file"
    /\ new_result = NoErr
    /\ convo = None
    /\ graph_local = EmptyGraph
    /\ last_call = NoCall
    /\ ron_talk = NoFile
    /\ load_result = NotLoaded
    /\ instances = <<>>
    /\ alone = <<>>

AddRonActor ==
    /\ pc = "file"
    /\ Len(ron_talk.actors) < MaxRonLen
    /\ \E id \in ActorKeys : \E name \in RonActorNames :
          ron_talk' = [ron_talk EXCEPT !.actors = Append(@, [id |-> id, name |-> name])]
    /\ UNCHANGED <<raw_script, pc, new_result, convo, graph_local, last_call>>
    /\ UNCHANGED <<load_result, pair_vars>>

AddRonAction ==
    /\ pc = "file"
    /\ Len(ron_talk.script) < MaxRonLen
    /\ \E id \in RonActionIds : \E text \in RonTexts :
          ron_talk' = [ron_talk EXCEPT !.script = Append(@, [id |-> id, text |-> text])]
    /\ UNCHANGED <<raw_script, pc, new_result, convo, graph_local, last_call>>
    /\ UNCHANGED <<load_result, pair_vars>>

Load ==
    /\ pc = "file"
    /\ pc' = "loaded"
    /\ load_result' = load(ron_talk)
    /\ UNCHANGED <<raw_script, new_result, convo, graph_local, last_call>>
    /\ UNCHANGED <<ron_talk, pair_vars>>

LoaderNext == AddRonActor \/ AddRonAction \/ Load

LoaderSpec == LoaderInit /\ [][LoaderNext]_vars

(* The positions of list at which an id occurs that an earlier position has *)
SecondOccurrences(list) ==
    {i \in DOMAIN list : \E j \in 1..(i - 1) : list[j].id = list[i].id}

(* C28: load, once the bytes parse, fails with DuplicateActorId(id) for the
   first actor id that occurs a second time in the actors list, otherwise
   with DuplicateActionId(id) for the first action id that occurs a second
   time in the script; when no id is duplicated it returns a TalkData with
   exactly one actor per actor of the file and one action per action of the
   file, in file order. *)
C28_LoadDuplicates ==
    pc = "loaded" =>
        LET da == SecondOccurrences(ron_talk.actors)
            ds == SecondOccurrences(ron_talk.script)
        IN  IF da # {}
            THEN /\ ~load_result.ok
                 /\ load_result.err = DuplicateActorId(ron_talk.actors[Min(da)].id)
            ELSE IF ds # {}
            THEN /\ ~load_result.ok
                 /\ load_result.err = DuplicateActionId(ron_talk.script[Min(ds)].id)
            ELSE /\ load_result.ok
                 /\ Len(load_result.val.actors) = Len(ron_talk.actors)
                 /\ Len(load_result.val.script) = Len(ron_talk.script)
                 /\ \A k \in DOMAIN ron_talk.actors :
                       load_result.val.actors[k] =
                           <<ron_talk.actors[k].id, [name |-> ron_talk.actors[k].name]>>
                 /\ \A k \in DOMAIN ron_talk.script :
                       load_result.val.script[k][1] = ron_talk.script[k].id

(* A file with a repeated actor id and, earlier in the file order of its
   list, a repeated action id: the actor id is the one reported *)
C28_Witness ==
    /\ pc = "loaded"
    /\ SecondOccurrences(ron_talk.actors) = {3}
    /\ SecondOccurrences(ron_talk.script) = {2}
    /\ load_result.err = DuplicateActorId(ron_talk.actors[3].id)

----------------------------------------------------------------------------
(* Two Conversation instances, built from the same raw script by two calls
   of new and driven by interleaved calls.  alone[i] is instance i as it is
   when it receives its own calls only, in the same order. *)

InstanceIds == {1, 2}

(* The largest raw script, by RawWeight, that two instances are built from *)
MaxPairWeight == 2

(* A method with a self receiver writing the cursor of every instance, as
   if current were shared between them *)
WriteSelfShared(insts, i, c) ==
    [j \in DOMAIN insts |-> [insts[j] EXCEPT !.current = c.current]]

(* A method with the receiver &mut self, called on instance i, leaving
   instance i as c *)
WriteSelf(insts, i, c) == [insts EXCEPT ![i] = c]

NewPair ==
    /\ pc = "script"
    /\ RawWeight(raw_script) <= MaxPairWeight
    /\ \E r1, r2 \in ConversationNew(raw_script) :
          IF r1.ok /\ r2.ok
          THEN /\ pc' = "pair"
               /\ instances' = <<Instance(r1), Instance(r2)>>
               /\ alone' = <<Instance(r1), Instance(r2)>>
          ELSE /\ pc' = "failed"
               /\ UNCHANGED <<instances, alone>>
    /\ UNCHANGED <<raw_script, new_result, convo, graph_local, last_call, loader_vars>>

PairNextLine ==
    /\ pc = "pair"
    /\ \E i \in InstanceIds :
          /\ instances' = WriteSelf(instances, i, next_line(instances[i]).self)
          /\ alone' = [alone EXCEPT ![i] = next_line(alone[i]).self]
    /\ UNCHANGED <<raw_script, pc, new_result, convo, graph_local, last_call, loader_vars>>

PairJumpTo ==
    /\ pc = "pair"
    /\ \E i \in InstanceIds : \E id \in JumpIds :
          /\ instances' = WriteSelf(instances, i, jump_to(instances[i], id).self)
          /\ alone' = [alone EXCEPT ![i] = jump_to(alone[i], id).self]
    /\ UNCHANGED <<raw_script, pc, new_result, convo, graph_local, last_call, loader_vars>>

PairChoices ==
    /\ pc = "pair"
    /\ \E i \in InstanceIds :
          LET r == choices(instances[i])
          IN  last_call' = [op |-> "choices", arg |-> Some(i), ok |-> r.ok,
                            err |-> r.err, val |-> r.val]
    /\ UNCHANGED <<raw_script, pc, new_result, convo, graph_local, loader_vars, pair_vars>>

PairNext == PushActor \/ PushPlayer \/ NewPair \/ PairNextLine \/ PairJumpTo \/ PairChoices

PairSpec == Init /\ [][PairNext]_vars

(* C29: two Conversation instances are independent: a call of next_line,
   choices or jump_to on one instance leaves the cursor and the graph of
   the other unchanged, and after any interleaving each instance is what
   it is after its own calls alone, run in the same order. *)
C29_Independent ==
    /\ [](pc = "pair" => \A i \in InstanceIds : instances[i] = alone[i])
    /\ [][(pc = "pair" /\ pc' = "pair") =>
             \E i \in InstanceIds :
                 \A j \in InstanceIds \ {i} :
                     /\ instances'[j].current = instances[j].current
                     /\ instances'[j].graph = instances[j].graph]_vars

(* The two instances with their cursors on different nodes, neither on the
   start node, the choices of the second one just read *)
C29_Witness ==
    /\ pc = "pair"
    /\ last_call.op = "choices" /\ last_call.arg = Some(2)
    /\ instances[1].current # instances[2].current
    /\ instances[1].current + 1 \notin StartFlagged(Script)
    /\ instances[2].current + 1 \notin StartFlagged(Script)

====
